---- MODULE Spec2Model ----
(***************************************************************************)
(* Model of the two browser widgets of blog_side_api:                      *)
(*   - MusicPlayer (src/web/music.js, src/unnamed/part_000 lines 1-174):   *)
(*     one audio element, the isPlaying flag, the icon, the volume slider  *)
(*     and the one-shot "first document click" autoplay fallback;          *)
(*   - SnowEffect (src/unnamed/part_000 lines 176-283): the canvas, the    *)
(*     particle array and the requestAnimationFrame loop.                  *)
(*                                                                         *)
(* The browser is the environment.  An audio.play() call returns a promise *)
(* that the browser settles later; the then/catch callbacks run as         *)
(* microtasks, in order, before the next event (click, input, media event) *)
(* is dispatched, while host script may call the widget's methods          *)
(* back-to-back before any callback has run.                               *)
(***************************************************************************)
EXTENDS Integers, Sequences, FiniteSets, TLC

\* ------------------------------------------------------------------ bounds
\* Play promises that may be outstanding (awaiting the browser or queued for
\* their callbacks) at one time.
MaxPromises == 3
\* init() autoplay attempts that may end up arming a fallback listener.
MaxListeners == 2
\* Frame requests the overlay may make in one run of the model.
MaxFrames == 5
\* Seeds the page's Math.random() generator may start from: 0..MaxSeed.
MaxSeed == 1
\* The larger of the two viewport heights, in pixels.
MaxHeight == 8
\* The viewport width, in pixels.
MaxWidth == 5

\* ------------------------------------------------------- program constants
\* this.audio.volume = 0.5, in hundredths.
InitialVolume == 50
\* volumeSlider.step = 0.05, in hundredths.
SliderStep == 5
\* volumeSlider.max = 1, in hundredths.
SliderMax == 100
\* const count = 50; // Number of flakes
FlakeCount == 50

VARIABLES
    \* ---- MusicPlayer fields
    isPlaying,      \* this.isPlaying
    playlist,       \* this.playlist
    toggleBtn,      \* this.toggleBtn # null (createUI has built the control)
    icon,           \* this.toggleBtn.innerHTML: "none" before createUI, "mute", "note"
    sliderValue,    \* this.volumeSlider.value, a decimal string kept as its digits
    isExpanded,     \* this.isExpanded (the touch revision of the widget)
    \* ---- the audio element
    audioPaused,    \* this.audio.paused
    audioError,     \* this.audio.error # null (the source failed to load)
    audioReady,     \* playback of the current source has started (readyState)
    audioLoop,      \* this.audio.loop
    volume,         \* this.audio.volume, in hundredths
    \* ---- the document and the browser
    listeners,      \* startPlay listeners armed on document
    pending,        \* play promises the browser has not settled yet
    jobs,           \* settled promises whose then/catch callback has not run yet
    activated,      \* the page has had a user gesture (autoplay is then allowed)
    variant,        \* which revision of the widget is loaded: "stop" or "touch"
    isTouch,        \* window.matchMedia('(hover: none)').matches
    \* ---- history of the run (not program state)
    lastOp,         \* the operation that produced this state
    tg,             \* the two-toggle() experiment under way
    \* ---- SnowEffect fields
    canvas,         \* this.canvas # null (and this.ctx with it)
    canvasWidth,    \* this.canvas.width, in pixels
    canvasHeight,   \* this.canvas.height, in pixels
    canvasImage,    \* what the canvas shows: "clear" or "snow"
    flakes,         \* this.flakes: records x, y, r, d, a in hundredths
    isRunning,      \* this.isRunning
    animationFrame, \* this.animationFrame: 0 for null, else a request id
    \* ---- the window
    innerWidth,     \* window.innerWidth
    innerHeight,    \* window.innerHeight
    requests,       \* ids of the frame requests not yet run or cancelled
    nextId,         \* the id the next requestAnimationFrame() returns
    rng,            \* the state of the Math.random() generator
    \* ---- history of the run (not program state)
    snowOp,         \* the overlay operation that produced this state
    moveHeight      \* canvas height when the particles were last created or moved

musicVars == <<isPlaying, playlist, toggleBtn, icon, sliderValue, isExpanded,
               audioPaused, audioError, audioReady, audioLoop, volume, listeners,
               pending, jobs, activated, variant, isTouch, lastOp, tg>>

snowVars == <<canvas, canvasWidth, canvasHeight, canvasImage, flakes, isRunning,
              animationFrame, innerWidth, innerHeight, requests, nextId, rng,
              snowOp, moveHeight>>

vars == <<musicVars, snowVars>>

\* ------------------------------------------------------------ conversions

\* Number -> string, as volumeSlider.value = this.audio.volume renders a value
\* h/100: the integer part, then the decimals without trailing zeros.
NumberToString(h) ==
    IF h % 100 = 0 THEN <<h \div 100>>
    ELSE IF h % 10 = 0 THEN <<h \div 100, (h % 100) \div 10>>
    ELSE <<h \div 100, (h % 100) \div 10, h % 10>>

\* String -> number, as audio.volume = e.target.value converts the slider's
\* string: digit 1 is the integer part, digits 2 and 3 tenths and hundredths.
ToNumber(s) ==
    s[1] * 100 + (IF Len(s) > 1 THEN s[2] * 10 ELSE 0)
               + (IF Len(s) > 2 THEN s[3] ELSE 0)

\* The values a range input with min 0, max 1, step 0.05 can take.
SliderValues == { NumberToString(k * SliderStep) : k \in 0..(SliderMax \div SliderStep) }

\* ------------------------------------------------------------- the icon

\* updateIcon(): the icon follows isPlaying once the button exists.
UpdateIcon(btn, playing) ==
    IF btn THEN (IF playing THEN "note" ELSE "mute") ELSE "none"

\* ------------------------------------------------------ the audio element

Promise(h, by) == [h |-> h, by |-> by]
\* A settled promise: res is "fulfilled" or the name of the rejection's error.
Job(p, res) == [h |-> p.h, by |-> p.by, res |-> res]

RECURSIVE Settle(_, _)
\* The jobs for a batch of promises the browser settles together.
Settle(ps, res) ==
    IF ps = <<>> THEN <<>> ELSE <<Job(Head(ps), res)>> \o Settle(Tail(ps), res)

\* The audio element's state a play()/pause() call works on.
Media == [paused |-> audioPaused, error |-> audioError, ready |-> audioReady,
          pending |-> pending, jobs |-> jobs]

\* audio.play(): refused at once (autoplay policy, or a source that already
\* failed) with a rejected promise, or accepted.  On an element that is already
\* playing the promise is taken out of the pending ones at once, to be
\* fulfilled; otherwise paused becomes false and the promise waits for
\* playback to start.
AudioPlay(m, p, allowed) ==
    IF m.error THEN [m EXCEPT !.jobs = Append(@, Job(p, "NotSupportedError"))]
    ELSE IF ~allowed THEN [m EXCEPT !.jobs = Append(@, Job(p, "NotAllowedError"))]
    ELSE IF ~m.paused /\ m.ready THEN [m EXCEPT !.jobs = Append(@, Job(p, "fulfilled"))]
    ELSE [m EXCEPT !.paused = FALSE, !.pending = Append(@, p)]

\* audio.pause(): when not paused, paused becomes true and every pending play
\* promise is rejected (AbortError); a promise already taken to be fulfilled
\* is not.
AudioPause(m) ==
    IF m.paused THEN m
    ELSE [m EXCEPT !.paused = TRUE, !.pending = <<>>,
                   !.jobs = @ \o Settle(m.pending, "AbortError")]

Outstanding(m) == Len(m.pending) + Len(m.jobs)

NoOp == [op |-> "none", h |-> "", by |-> "", res |-> ""]
Op(op, h, by, res) == [op |-> op, h |-> h, by |-> by, res |-> res]

TgNone == [n |-> 0, isPlaying |-> FALSE, paused |-> TRUE, quiet |-> FALSE, rejected |-> FALSE,
           clicks |-> 0]

\* The viewport sizes the window takes, in pixels.
ViewportWidth == MaxWidth
ViewportHeights == {MaxHeight \div 2, MaxHeight}

\* ----------------------------------------------------------------- Init

Init ==
    /\ isPlaying = FALSE
    /\ playlist = <<>>
    /\ toggleBtn = FALSE
    /\ icon = "none"
    /\ sliderValue = <<>>
    /\ isExpanded = FALSE
    /\ audioPaused = TRUE
    /\ audioError = FALSE
    /\ audioReady = FALSE
    /\ audioLoop = FALSE
    /\ volume = 100
    /\ listeners = 0
    /\ pending = <<>>
    /\ jobs = <<>>
    /\ activated = FALSE
    /\ variant \in {"stop", "touch"}
    /\ isTouch \in (IF variant = "touch" THEN BOOLEAN ELSE {FALSE})
    /\ lastOp = NoOp
    /\ tg = TgNone
    /\ canvas = FALSE
    /\ canvasWidth = 0
    /\ canvasHeight = 0
    /\ canvasImage = "clear"
    /\ flakes = <<>>
    /\ isRunning = FALSE
    /\ animationFrame = 0
    /\ innerWidth = ViewportWidth
    /\ innerHeight \in ViewportHeights
    /\ requests = {}
    /\ nextId = 1
    /\ rng \in 0..MaxSeed
    /\ snowOp = "none"
    /\ moveHeight = 0

\* ------------------------------------------------- MusicPlayer operations

SetMedia(m) ==
    /\ audioPaused' = m.paused
    /\ audioError' = m.error
    /\ audioReady' = m.ready
    /\ pending' = m.pending
    /\ jobs' = m.jobs

\* Whether the browser lets a play() call through: always after a user
\* gesture, and either way before one (the site may or may not be exempt).
Allowed == IF activated THEN {TRUE} ELSE BOOLEAN

RECURSIVE CountInit(_)
CountInit(ps) ==
    IF ps = <<>> THEN 0
    ELSE (IF Head(ps).h = "init" THEN 1 ELSE 0) + CountInit(Tail(ps))

\* audio.src = url starts the element's load: a playing element is paused and
\* its pending play promises are rejected (AbortError); an old error is gone
\* and the new source has yet to load.
AudioLoad(m) == [AudioPause(m) EXCEPT !.error = FALSE, !.ready = FALSE]

\* createUI(): builds the control once; the slider shows the audio's volume
\* and updateIcon() paints the icon.
CreateUI ==
    IF toggleBtn
    THEN UNCHANGED <<toggleBtn, sliderValue, icon>>
    ELSE /\ toggleBtn' = TRUE
         /\ sliderValue' = NumberToString(volume')
         /\ icon' = UpdateIcon(TRUE, isPlaying)

\* init(musicUrl): nothing for an empty url; otherwise the track, loop and
\* volume are set, the UI is built and playback is attempted.
InitCall(url) ==
    /\ UNCHANGED snowVars
    /\ lastOp' = Op("init", url, "", "")
    /\ tg' = TgNone
    /\ IF url = ""
       THEN UNCHANGED <<isPlaying, playlist, toggleBtn, icon, sliderValue,
                        isExpanded, audioPaused, audioError, audioReady, audioLoop, volume,
                        listeners, pending, jobs, activated, variant, isTouch>>
       ELSE /\ Outstanding(Media) < MaxPromises
            /\ listeners + CountInit(pending) + CountInit(jobs) < MaxListeners
            /\ playlist' = <<url>>
            /\ audioLoop' = TRUE
            /\ volume' = InitialVolume
            /\ CreateUI
            /\ \E allowed \in Allowed :
                   SetMedia(AudioPlay(AudioLoad(Media), Promise("init", "init"), allowed))
            /\ UNCHANGED <<isPlaying, isExpanded, listeners, activated, variant, isTouch>>

\* play(): asks the audio element to play; the flag and the icon change only
\* in the promise's callbacks.
PlayBody(by, allowed) ==
    /\ SetMedia(AudioPlay(Media, Promise("play", by), allowed))
    /\ UNCHANGED <<isPlaying, icon>>

\* pause() without its updateIcon() call.
PauseBodyNoIcon ==
    /\ SetMedia(AudioPause(Media))
    /\ isPlaying' = FALSE
    /\ UNCHANGED icon

\* pause(): pauses the audio, clears the flag, repaints the icon.
PauseBody ==
    /\ SetMedia(AudioPause(Media))
    /\ isPlaying' = FALSE
    /\ icon' = UpdateIcon(toggleBtn, FALSE)

\* toggle(): pause when the flag says playing, play otherwise.
ToggleBody(by, allowed) ==
    IF isPlaying THEN PauseBody ELSE PlayBody(by, allowed)

\* The two-toggle() experiment: a first toggle() records the state it started
\* from (and whether no promise was outstanding then), a second one ends it;
\* rejected tells whether a play attempt of the two was rejected, clicks how
\* many of the two were clicks on the toggle button.
TgAfterToggle ==
    IF tg.n = 1 THEN [tg EXCEPT !.n = 2]
    ELSE [n |-> 1, isPlaying |-> isPlaying, paused |-> audioPaused,
          quiet |-> (pending = <<>> /\ jobs = <<>>), rejected |-> FALSE,
          clicks |-> 0]

\* Host script calls play().
PlayCall ==
    /\ UNCHANGED snowVars
    /\ playlist # <<>>
    /\ Outstanding(Media) < MaxPromises
    /\ \E allowed \in Allowed : PlayBody("direct", allowed)
    /\ lastOp' = Op("play", "play", "direct", "")
    /\ tg' = TgNone
    /\ UNCHANGED <<playlist, toggleBtn, sliderValue, isExpanded,
                   audioLoop, volume, listeners, activated, variant, isTouch>>

\* Host script calls pause().
PauseCall ==
    /\ UNCHANGED snowVars
    /\ playlist # <<>>
    /\ PauseBody
    /\ lastOp' = Op("pause", "pause", "direct", "")
    /\ tg' = TgNone
    /\ UNCHANGED <<playlist, toggleBtn, sliderValue, isExpanded,
                   audioLoop, volume, listeners, activated, variant, isTouch>>

\* Host script calls toggle().
ToggleCall ==
    /\ UNCHANGED snowVars
    /\ playlist # <<>>
    /\ isPlaying \/ Outstanding(Media) < MaxPromises
    /\ \E allowed \in Allowed : ToggleBody("toggle", allowed)
    /\ lastOp' = Op("toggle", IF isPlaying THEN "pause" ELSE "play", "direct", "")
    /\ tg' = TgAfterToggle
    /\ UNCHANGED <<playlist, toggleBtn, sliderValue, isExpanded,
                   audioLoop, volume, listeners, activated, variant, isTouch>>

\* ------------------------------------------------------------ DOM events
\* An event is dispatched only when no promise callback is waiting: the
\* microtask queue is drained before the next task.

\* The toggle button's click listener.  In the touch revision a first tap on
\* a touch device only expands the control; otherwise toggle().  The event
\* stops at the button (or at the container) and never reaches document.
ToggleBtnOnClick ==
    IF variant = "touch" /\ isTouch /\ ~isExpanded
    THEN /\ isExpanded' = TRUE
         /\ UNCHANGED <<isPlaying, icon, audioPaused, audioError, audioReady, pending, jobs>>
    ELSE /\ ToggleBody("toggle", TRUE)
         /\ UNCHANGED isExpanded

ToggleBtnClick ==
    /\ UNCHANGED snowVars
    /\ toggleBtn
    /\ jobs = <<>>
    /\ isPlaying \/ Outstanding(Media) < MaxPromises
    /\ ToggleBtnOnClick
    /\ activated' = TRUE
    /\ lastOp' = IF variant = "touch" /\ isTouch /\ ~isExpanded
                 THEN Op("expand", "", "click", "")
                 ELSE Op("toggle", IF isPlaying THEN "pause" ELSE "play", "click", "")
    /\ tg' = IF variant = "touch" /\ isTouch /\ ~isExpanded THEN tg
             ELSE [TgAfterToggle EXCEPT !.clicks = @ + 1]
    /\ UNCHANGED <<playlist, toggleBtn, sliderValue, audioLoop, volume,
                   listeners, variant, isTouch>>

\* startPlay without its removeEventListener() call.
StartPlayKept(s) ==
    [m |-> AudioPlay(s.m, Promise("play", "fallback"), TRUE),
     listeners |-> s.listeners]

\* startPlay, the fallback listener: play(), then it removes itself.
StartPlay(s) ==
    [m |-> AudioPlay(s.m, Promise("play", "fallback"), TRUE),
     listeners |-> s.listeners - 1]

RECURSIVE Dispatch(_, _)
\* The n startPlay listeners armed when the click is dispatched, one by one.
Dispatch(s, n) == IF n = 0 THEN s ELSE Dispatch(StartPlay(s), n - 1)

\* A click that reaches document (outside the control): every armed startPlay
\* listener runs; the touch revision's global listener collapses the control.
DocumentClick ==
    /\ UNCHANGED snowVars
    /\ jobs = <<>>
    /\ Outstanding(Media) + listeners <= MaxPromises
    /\ LET s == Dispatch([m |-> Media, listeners |-> listeners], listeners)
       IN /\ SetMedia(s.m)
          /\ listeners' = s.listeners
    /\ isExpanded' = IF variant = "touch" /\ toggleBtn THEN FALSE ELSE isExpanded
    /\ activated' = TRUE
    /\ lastOp' = Op("docclick", IF listeners > 0 THEN "fired" ELSE "", "", "")
    /\ tg' = IF listeners > 0 THEN TgNone ELSE tg
    /\ UNCHANGED <<isPlaying, playlist, toggleBtn, icon, sliderValue, audioLoop,
                   volume, variant, isTouch>>

\* The input listener reading the value with parseInt().
SliderOnInputParseInt(value) == volume' = value[1] * 100

\* The slider's input listener: this.audio.volume = e.target.value.
SliderOnInput(value) == volume' = ToNumber(value)

\* The user moves the slider to another of its values.
SliderInput(value) ==
    /\ UNCHANGED snowVars
    /\ toggleBtn
    /\ jobs = <<>>
    /\ value # sliderValue
    /\ sliderValue' = value
    /\ SliderOnInput(value)
    /\ lastOp' = Op("input", "", "", "")
    /\ UNCHANGED <<isPlaying, playlist, toggleBtn, icon, isExpanded, audioPaused,
                   audioError, audioReady, audioLoop, listeners, pending, jobs, activated,
                   variant, isTouch, tg>>

\* mouseenter / mouseleave on the container (desktop, touch revision):
\* expand() and collapse().
MouseEnter ==
    /\ UNCHANGED snowVars
    /\ toggleBtn /\ jobs = <<>>
    /\ variant = "touch" /\ ~isTouch /\ ~isExpanded
    /\ isExpanded' = TRUE
    /\ lastOp' = Op("mouseenter", "", "", "")
    /\ UNCHANGED <<isPlaying, playlist, toggleBtn, icon, sliderValue, audioPaused,
                   audioError, audioReady, audioLoop, volume, listeners, pending, jobs,
                   activated, variant, isTouch, tg>>

MouseLeave ==
    /\ UNCHANGED snowVars
    /\ toggleBtn /\ jobs = <<>>
    /\ variant = "touch" /\ ~isTouch /\ isExpanded
    /\ isExpanded' = FALSE
    /\ lastOp' = Op("mouseleave", "", "", "")
    /\ UNCHANGED <<isPlaying, playlist, toggleBtn, icon, sliderValue, audioPaused,
                   audioError, audioReady, audioLoop, volume, listeners, pending, jobs,
                   activated, variant, isTouch, tg>>

\* ----------------------------------------------------------- the browser

\* Playback starts: every pending play promise is fulfilled.
BrowserPlaying ==
    /\ UNCHANGED snowVars
    /\ pending # <<>>
    /\ jobs = <<>>
    /\ jobs' = Settle(pending, "fulfilled")
    /\ pending' = <<>>
    /\ audioReady' = TRUE
    /\ lastOp' = Op("playing", "", "", "")
    /\ UNCHANGED <<isPlaying, playlist, toggleBtn, icon, sliderValue, isExpanded,
                   audioPaused, audioError, audioLoop, volume, listeners,
                   activated, variant, isTouch, tg>>

\* The source cannot be loaded (before any of it has played): the element's
\* error is set and every pending play promise is rejected (NotSupportedError).
BrowserLoadError ==
    /\ UNCHANGED snowVars
    /\ pending # <<>>
    /\ jobs = <<>>
    /\ ~audioReady
    /\ audioError' = TRUE
    /\ jobs' = Settle(pending, "NotSupportedError")
    /\ pending' = <<>>
    /\ lastOp' = Op("loaderror", "", "", "")
    /\ tg' = TgNone
    /\ UNCHANGED <<isPlaying, playlist, toggleBtn, icon, sliderValue, isExpanded,
                   audioPaused, audioReady, audioLoop, volume, listeners, activated,
                   variant, isTouch>>

\* ------------------------------------------------------ promise callbacks

\* init(): .then(() => { this.isPlaying = true; this.updateIcon(); })
InitThen ==
    /\ isPlaying' = TRUE
    /\ icon' = UpdateIcon(toggleBtn, TRUE)
    /\ UNCHANGED listeners

\* init()'s catch without this.isPlaying = false.
InitCatchFlagKept ==
    /\ UNCHANGED isPlaying
    /\ icon' = UpdateIcon(toggleBtn, isPlaying)
    /\ listeners' = listeners + 1

\* init(): .catch(...): the flag is cleared, the icon repainted and a startPlay
\* listener is added to document.
InitCatch ==
    /\ isPlaying' = FALSE
    /\ icon' = UpdateIcon(toggleBtn, FALSE)
    /\ listeners' = listeners + 1

\* play(): .then(() => { this.isPlaying = true; this.updateIcon(); })
PlayThen ==
    /\ isPlaying' = TRUE
    /\ icon' = UpdateIcon(toggleBtn, TRUE)
    /\ UNCHANGED listeners

\* play()'s catch handling the rejection as init()'s does.
PlayCatchAsInit ==
    /\ isPlaying' = FALSE
    /\ icon' = UpdateIcon(toggleBtn, FALSE)
    /\ listeners' = listeners + 1

\* play(): .catch(e => console.error(e))
PlayCatch == UNCHANGED <<isPlaying, icon, listeners>>

\* The next callback in the microtask queue runs.
RunJob ==
    /\ UNCHANGED snowVars
    /\ jobs # <<>>
    /\ LET j == Head(jobs)
       IN /\ CASE j.h = "init" /\ j.res = "fulfilled" -> InitThen
              [] j.h = "init" /\ j.res # "fulfilled" -> InitCatch
              [] j.h = "play" /\ j.res = "fulfilled" -> PlayThen
              [] j.h = "play" /\ j.res # "fulfilled" -> PlayCatch
          /\ lastOp' = Op("job", j.h, j.by, j.res)
          /\ tg' = IF j.by = "toggle" /\ j.res # "fulfilled"
                   THEN [tg EXCEPT !.rejected = TRUE] ELSE tg
    /\ jobs' = Tail(jobs)
    /\ UNCHANGED <<playlist, toggleBtn, sliderValue, isExpanded, audioPaused,
                   audioError, audioReady, audioLoop, volume, pending, activated, variant,
                   isTouch>>

\* ----------------------------------------------------------- SnowEffect
\* Reals are kept in hundredths: a particle's x, y, r, d, a, and the values
\* Math.random() returns (0..99 for [0, 1)).

\* Math.random(): a generator whose state steps at each call.
NextRandom(s) == (5 * s + 3) % 64
Random(s) == (s * 100) \div 64

RECURSIVE IsqrtIn(_, _, _)
\* The largest k in lo..hi with k * k <= n.
IsqrtIn(n, lo, hi) ==
    IF lo >= hi THEN lo
    ELSE LET mid == (lo + hi + 1) \div 2
         IN IF mid * mid <= n THEN IsqrtIn(n, mid, hi) ELSE IsqrtIn(n, lo, mid - 1)

\* Math.pow(f.d, 0.5) * 0.5 + 1, the fall per frame of a particle of density d.
Speed(d) == IsqrtIn(d * 100, 0, 100 * 10) \div 2 + 100

\* sin(t) for t in [0, pi], t and the result in hundredths (Bhaskara's
\* rational approximation, pi = 3.14).
HalfWave(t) == (100 * 16 * t * (314 - t)) \div (5 * 314 * 314 - 4 * t * (314 - t))

\* Math.sin(i + f.d) * 0.5, the sway per frame of particle i (0-based).
Sway(i, d) ==
    LET t == (i * 100 + d) % 628
        sin == IF t <= 314 THEN HalfWave(t) ELSE 0 - HalfWave(t - 314)
    IN IF sin >= 0 THEN sin \div 2 ELSE 0 - ((0 - sin) \div 2)

RECURSIVE PushFlakes(_, _, _, _, _)
\* The loop of createFlakes(): n more particles pushed, each drawing x, y, r,
\* d, a from Math.random() in that order.
PushFlakes(fl, s, n, w, h) ==
    IF n = 0 THEN [flakes |-> fl, rng |-> s]
    ELSE LET s1 == NextRandom(s)
             s2 == NextRandom(s1)
             s3 == NextRandom(s2)
             s4 == NextRandom(s3)
             s5 == NextRandom(s4)
             f == [x |-> Random(s1) * w,
                   y |-> Random(s2) * h,
                   r |-> Random(s3) * 3 + 100,
                   d |-> Random(s4) * FlakeCount,
                   a |-> Random(s5)]
         IN PushFlakes(Append(fl, f), s5, n - 1, w, h)

\* createFlakes() without this.flakes = []: the particles are added to the old.
CreateFlakesAppend(old, s, w, h) == PushFlakes(old, s, FlakeCount, w, h)

\* createFlakes(): this.flakes = [], then count particles are pushed.
CreateFlakes(old, s, w, h) == PushFlakes(<<>>, s, FlakeCount, w, h)

\* A particle's step in move() without the reset at the bottom edge.
MoveFlakeNoReset(f, i, s, w, h) ==
    [flake |-> [f EXCEPT !.x = f.x + Sway(i, f.d), !.y = f.y + Speed(f.d)], rng |-> s]

\* One particle's step in move(): it falls and sways, and past the bottom edge
\* it is replaced by a particle at y = 0 with a new random x.
MoveFlake(f, i, s, w, h) ==
    LET y == f.y + Speed(f.d)
        x == f.x + Sway(i, f.d)
    IN IF y > 100 * h
       THEN LET s1 == NextRandom(s)
            IN [flake |-> [x |-> Random(s1) * w, y |-> 0, r |-> f.r, d |-> f.d, a |-> f.a],
                rng |-> s1]
       ELSE [flake |-> [f EXCEPT !.x = x, !.y = y], rng |-> s]

RECURSIVE MoveFrom(_, _, _, _, _)
\* move(): the loop over this.flakes from index i (0-based) on.
MoveFrom(fl, i, s, w, h) ==
    IF i >= Len(fl) THEN [flakes |-> fl, rng |-> s]
    ELSE LET m == MoveFlake(fl[i + 1], i, s, w, h)
         IN MoveFrom([fl EXCEPT ![i + 1] = m.flake], i + 1, m.rng, w, h)

Move(fl, s, w, h) == MoveFrom(fl, 0, s, w, h)

\* resize(): with a canvas, it takes the window's size w, h.
Resize(c, w, h) ==
    IF c
    THEN /\ canvasWidth' = w
         /\ canvasHeight' = h
    ELSE UNCHANGED <<canvasWidth, canvasHeight>>

\* init(): the canvas is created once, the resize listener registered and
\* resize() called.
SnowInit ==
    IF canvas
    THEN UNCHANGED <<canvas, canvasWidth, canvasHeight>>
    ELSE /\ canvas' = TRUE
         /\ Resize(TRUE, innerWidth, innerHeight)

\* draw() while running: clear, paint every particle, move(), request the
\* next frame.  fl, s are the particles and generator state it starts from,
\* pend the requests outstanding when it is called.
Draw(fl, s, pend) ==
    LET m == Move(fl, s, canvasWidth', canvasHeight')
    IN /\ canvasImage' = "snow"
       /\ flakes' = m.flakes
       /\ rng' = m.rng
       /\ moveHeight' = canvasHeight'
       /\ animationFrame' = nextId
       /\ requests' = pend \cup {nextId}
       /\ nextId' = nextId + 1

\* start() without its isRunning guard.
StartBodyUnguarded ==
    /\ SnowInit
    /\ isRunning' = TRUE
    /\ LET c == CreateFlakes(flakes, rng, canvasWidth', canvasHeight')
       IN Draw(c.flakes, c.rng, requests)

\* start(): nothing when running; otherwise init(), createFlakes(),
\* isRunning = true, draw().
StartBody ==
    IF isRunning
    THEN UNCHANGED <<canvas, canvasWidth, canvasHeight, canvasImage, flakes,
                     isRunning, animationFrame, requests, nextId, rng, moveHeight>>
    ELSE /\ SnowInit
         /\ isRunning' = TRUE
         /\ LET c == CreateFlakes(flakes, rng, canvasWidth', canvasHeight')
            IN Draw(c.flakes, c.rng, requests)

StartCall ==
    /\ isRunning \/ nextId <= MaxFrames
    /\ StartBody
    /\ snowOp' = IF isRunning THEN "start-noop" ELSE "start"
    /\ UNCHANGED <<innerWidth, innerHeight>>
    /\ UNCHANGED musicVars

\* stop() without its cancelAnimationFrame() call.
StopBodyNoCancel ==
    /\ isRunning' = FALSE
    /\ canvasImage' = IF canvas THEN "clear" ELSE canvasImage
    /\ UNCHANGED <<canvas, canvasWidth, canvasHeight, flakes, animationFrame,
                   nextId, rng, moveHeight, requests>>

\* stop() without this.isRunning = false.
StopBodyFlagKept ==
    /\ UNCHANGED isRunning
    /\ requests' = IF animationFrame # 0 THEN requests \ {animationFrame} ELSE requests
    /\ canvasImage' = IF canvas THEN "clear" ELSE canvasImage
    /\ UNCHANGED <<canvas, canvasWidth, canvasHeight, flakes, animationFrame,
                   nextId, rng, moveHeight>>

\* stop(): isRunning = false, the stored frame request is cancelled and the
\* canvas cleared.
StopBody ==
    /\ isRunning' = FALSE
    /\ requests' = IF animationFrame # 0 THEN requests \ {animationFrame} ELSE requests
    /\ canvasImage' = IF canvas THEN "clear" ELSE canvasImage
    /\ UNCHANGED <<canvas, canvasWidth, canvasHeight, flakes, animationFrame,
                   nextId, rng, moveHeight>>

StopCall ==
    /\ StopBody
    /\ snowOp' = "stop"
    /\ UNCHANGED <<innerWidth, innerHeight>>
    /\ UNCHANGED musicVars

\* The browser runs a requested frame callback, () => this.draw(): draw()
\* returns at once when not running.
FrameCallback(id) ==
    /\ id \in requests
    /\ UNCHANGED <<canvas, canvasWidth, canvasHeight, isRunning, innerWidth, innerHeight>>
    /\ IF isRunning
       THEN /\ nextId <= MaxFrames
            /\ Draw(flakes, rng, requests \ {id})
            /\ snowOp' = "frame"
       ELSE /\ requests' = requests \ {id}
            /\ snowOp' = "frame-idle"
            /\ UNCHANGED <<canvasImage, flakes, rng, moveHeight, animationFrame, nextId>>
    /\ UNCHANGED musicVars

\* The viewport changes size; once init() has registered it, the resize
\* listener runs resize().
WindowResize(h) ==
    /\ h # innerHeight
    /\ innerHeight' = h
    /\ UNCHANGED <<innerWidth, canvas>>
    /\ Resize(canvas, innerWidth, h)
    /\ canvasImage' = IF canvas THEN "clear" ELSE canvasImage
    /\ snowOp' = "resize"
    /\ UNCHANGED <<flakes, isRunning, animationFrame, requests, nextId, rng, moveHeight>>
    /\ UNCHANGED musicVars

\* ------------------------------------------------------- the specification

Urls == {"", "track.mp3"}

\* The widget's playback: every operation but the slider, whose listener
\* touches only the volume, which no playback operation reads.
Next ==
    \/ \E url \in Urls : InitCall(url)
    \/ PlayCall
    \/ PauseCall
    \/ ToggleCall
    \/ ToggleBtnClick
    \/ DocumentClick
    \/ MouseEnter
    \/ MouseLeave
    \/ BrowserPlaying
    \/ BrowserLoadError
    \/ RunJob

\* The overlay's environment does not matter to the audio widget.
InitMusic == Init /\ rng = 0 /\ innerHeight = MaxHeight

Spec == InitMusic /\ [][Next]_vars

\* The volume: init() calls (with their autoplay attempts) and slider input.
NextVolume ==
    \/ \E url \in Urls : InitCall(url)
    \/ \E value \in SliderValues : SliderInput(value)
    \/ BrowserPlaying
    \/ BrowserLoadError
    \/ RunJob

SpecVolume == InitMusic /\ [][NextVolume]_vars

\* The particle overlay.
NextSnow ==
    \/ StartCall
    \/ StopCall
    \/ \E id \in requests : FrameCallback(id)
    \/ \E h \in ViewportHeights : WindowResize(h)

\* Nor the audio widget's revision to the overlay.
InitSnow == Init /\ variant = "stop"

SpecSnow == InitSnow /\ [][NextSnow]_vars

\* ================================================================ claims

Settled == pending = <<>> /\ jobs = <<>>

RECURSIVE CountBy(_, _)
\* The promises (or jobs) of ps made by `by`.
CountBy(ps, by) ==
    IF ps = <<>> THEN 0
    ELSE (IF Head(ps).by = by THEN 1 ELSE 0) + CountBy(Tail(ps), by)

Retries == CountBy(pending, "fallback") + CountBy(jobs, "fallback")

\* C1: two toggle() calls return playback to the state the first one started
\* from, once every play promise has settled and its callback has run.  Stated
\* for the most favourable case: nothing was outstanding at the first call and
\* no play attempt of the two was rejected.
C1_ToggleTwiceRestores ==
    (tg.n = 2 /\ tg.quiet /\ ~tg.rejected /\ Settled)
        => (isPlaying = tg.isPlaying /\ audioPaused = tg.paused)

\* C2 (as the spec states it): once the retry made by the document click
\* after a blocked autoplay has settled, isPlaying is true (a retry that a
\* later pause() or init() aborted aside).
C2_ClickSetsPlaying ==
    (lastOp.op = "job" /\ lastOp.by = "fallback" /\ lastOp.res # "AbortError") => isPlaying

\* C2 (amended): when init()'s autoplay promise is rejected, isPlaying is false,
\* the icon is muted and a listener is armed; a document click that reaches the
\* listener makes a play attempt and leaves the flag and icon as they are;
\* isPlaying and the icon turn to playing when that attempt's promise is
\* fulfilled, and stay unchanged when it is rejected.
C2_BlockedThenClick ==
    /\ []((lastOp.op = "job" /\ lastOp.h = "init" /\ lastOp.res # "fulfilled")
            => (~isPlaying /\ icon = "mute" /\ listeners > 0))
    /\ [](lastOp = Op("job", "play", "fallback", "fulfilled")
            => (isPlaying /\ icon = "note"))
    /\ [][ /\ (lastOp'.op = "docclick" /\ listeners > 0)
                => (Retries' = Retries + listeners /\ isPlaying' = isPlaying /\ icon' = icon)
           /\ (lastOp'.op = "job" /\ lastOp'.by = "fallback" /\ lastOp'.res # "fulfilled")
                => (isPlaying' = isPlaying /\ icon' = icon) ]_vars

C2_Witness ==
    /\ lastOp = Op("job", "play", "fallback", "fulfilled")
    /\ isPlaying /\ icon = "note" /\ listeners = 0

\* C3: a startPlay listener is armed only by the rejection callback of init()'s
\* autoplay attempt, one per rejection; a document click runs every armed
\* listener once (one play attempt each) and leaves none armed; play attempts
\* of the fallback are made by no other step.
C3_FallbackOneShot ==
    [][ /\ listeners' > listeners
            => /\ lastOp'.op = "job" /\ lastOp'.h = "init" /\ lastOp'.res # "fulfilled"
               /\ listeners' = listeners + 1
        /\ lastOp'.op = "docclick"
            => (listeners' = 0 /\ Retries' = Retries + listeners)
        /\ Retries' > Retries
            => (lastOp'.op = "docclick" /\ listeners > 0) ]_vars

C3_Witness ==
    /\ lastOp = Op("docclick", "fired", "", "")
    /\ listeners = 0
    /\ Retries = 1

\* C4 (as the spec states it): when toggle() returns, the icon shows the state
\* toggle() switched to, in both directions.
C4_IconSynchronous ==
    lastOp.op = "toggle" => icon = (IF lastOp.h = "play" THEN "note" ELSE "mute")

\* C4 (amended): toggle() pauses when isPlaying is true and plays otherwise.
\* When it returns from pausing, isPlaying is false, the audio is paused and the
\* icon is muted; when it returns from playing, isPlaying is still false and the
\* icon still muted, and both turn to playing when the play promise is fulfilled.
C4_ToggleIcon ==
    /\ (lastOp.op = "toggle" /\ lastOp.h = "pause")
          => (~isPlaying /\ icon = "mute" /\ audioPaused)
    /\ (lastOp.op = "toggle" /\ lastOp.h = "play")
          => (~isPlaying /\ icon = "mute")
    /\ lastOp = Op("job", "play", "toggle", "fulfilled")
          => (isPlaying /\ icon = "note")

C4_Witness ==
    /\ lastOp.op = "toggle" /\ lastOp.h = "play"
    /\ ~audioPaused /\ pending # <<>>
    /\ icon = "mute"

\* C5: the audio volume stays within [0, 1]; right after a slider input event
\* it is the slider's value; and it changes only by a slider input or by
\* init(), which sets it to 0.5.
C5_VolumeFollowsSlider ==
    /\ [](volume \in 0..SliderMax)
    /\ [](lastOp.op = "input" => NumberToString(volume) = sliderValue)
    /\ [][volume' # volume
            => \/ lastOp'.op = "input"
               \/ (lastOp'.op = "init" /\ volume' = InitialVolume)]_vars

C5_Witness ==
    /\ lastOp.op = "input"
    /\ volume = 7 * SliderStep
    /\ sliderValue = <<0, 3, 5>>

\* C6: while the overlay is stopped no frame request is outstanding and the
\* canvas is clear, and no step taken while it stays stopped changes a
\* particle: nothing is drawn or moved until the next start().
C6_StopHaltsLoop ==
    /\ [](~isRunning => (requests = {} /\ canvasImage = "clear"))
    /\ [][(~isRunning /\ ~isRunning') => flakes' = flakes]_vars

C6_Witness ==
    /\ snowOp = "stop"
    /\ animationFrame # 0 /\ animationFrame \notin requests
    /\ Len(flakes) = FlakeCount

\* C7: isRunning turns true only by start() and false only by stop(), and a
\* start() while running changes nothing: the particles, the canvas, the flag,
\* the stored and the outstanding frame requests all stay as they are.
C7_StartWhileRunningNoOp ==
    [][ /\ snowOp' = "start-noop"
            => (isRunning /\ UNCHANGED <<canvas, canvasWidth, canvasHeight, canvasImage,
                                         flakes, isRunning, animationFrame, requests,
                                         nextId, rng>>)
        /\ (~isRunning /\ isRunning') => snowOp' = "start"
        /\ (isRunning /\ ~isRunning') => snowOp' = "stop"
        /\ snowOp' = "start" => (~isRunning /\ isRunning')
        /\ snowOp' = "stop" => ~isRunning' ]_vars

C7_Witness ==
    /\ snowOp = "start-noop"
    /\ isRunning
    /\ requests = {animationFrame}

\* C8: once start() has run there are exactly 50 particles, whatever was there
\* before, and the count stays 50 through every frame, stop() and restart;
\* each particle's radius, density and alpha are in the ranges createFlakes()
\* draws them from.
C8_ParticleCount ==
    /\ Len(flakes) = (IF canvas THEN FlakeCount ELSE 0)
    /\ \A i \in DOMAIN flakes :
          /\ flakes[i].r \in 100..399
          /\ flakes[i].d \in 0..(100 * FlakeCount - 1)
          /\ flakes[i].a \in 0..99

C8_Witness ==
    /\ snowOp = "start"
    /\ animationFrame > 1
    /\ Len(flakes) = FlakeCount

\* C9 (as the spec states it): no particle's y exceeds the current canvas
\* height by more than its one-frame fall.
C9_WithinOneDelta ==
    \A i \in DOMAIN flakes :
        flakes[i].y <= 100 * canvasHeight + Speed(flakes[i].d)

\* C9 (amended): no particle's y exceeds the height the canvas had when the
\* particles were last created or moved (a particle carried past the bottom
\* edge is reset to y = 0 within that move()); right after start() and after
\* each frame that is the current canvas height, so a particle lies below the
\* current bottom edge only after a resize has lowered the canvas, until the
\* next frame.
C9_WithinHeightAtMove ==
    /\ \A i \in DOMAIN flakes : flakes[i].y \in 0..(100 * moveHeight)
    /\ snowOp \in {"start", "frame"} => moveHeight = canvasHeight
    /\ moveHeight <= canvasHeight
          => \A i \in DOMAIN flakes : flakes[i].y <= 100 * canvasHeight

C9_Witness ==
    /\ snowOp = "frame"
    /\ \E i \in DOMAIN flakes : flakes[i].y = 0
    /\ \E i \in DOMAIN flakes : flakes[i].y > 100 * canvasHeight - Speed(flakes[i].d)

\* C10: the rejection callback of a play() attempt (made by toggle(), by the
\* fallback listener or by a direct call) changes nothing: isPlaying, the icon
\* and the armed listeners stay as they are and no new play attempt is made.
C10_RejectionOnlyLogged ==
    [][(lastOp'.op = "job" /\ lastOp'.h = "play" /\ lastOp'.res # "fulfilled")
          => /\ isPlaying' = isPlaying
             /\ icon' = icon
             /\ listeners' = listeners
             /\ pending' = pending
             /\ jobs' = Tail(jobs)]_vars

C10_Witness ==
    /\ lastOp = Op("job", "play", "fallback", "NotSupportedError")
    /\ ~isPlaying /\ listeners = 0 /\ Settled

\* C11: whenever no play promise is outstanding (none awaits the browser and
\* none awaits its callback), isPlaying is true if and only if the audio is
\* playing: not paused, and with a source that has not failed to load.
C11_FlagAgreesWithAudio ==
    Settled => (isPlaying <=> (~audioPaused /\ ~audioError))

\* C12: at most one frame request is outstanding at any time, and one is
\* outstanding exactly when isRunning is true: start(), stop() and the frame
\* callbacks never leave two draw loops running side by side.
C12_SingleFrameRequest ==
    /\ Cardinality(requests) <= 1
    /\ isRunning <=> requests # {}

C12_Witness ==
    /\ snowOp = "start"
    /\ isRunning
    /\ animationFrame = 3
    /\ requests = {3}

\* C13: with a fallback listener armed (autoplay was blocked), once the user
\* has started playback with a click on the toggle button and paused it with a
\* second one, a click that reaches document leaves the audio paused and
\* makes no play attempt.
C13_ClickAfterPauseStaysPaused ==
    [][(/\ listeners > 0
        /\ tg.n = 2 /\ tg.clicks = 2 /\ ~tg.isPlaying /\ tg.paused /\ ~tg.rejected
        /\ Settled /\ ~isPlaying /\ audioPaused
        /\ lastOp'.op = "docclick")
          => (audioPaused' /\ pending' = <<>> /\ jobs' = <<>>)]_vars

====
